---- MODULE Spec2Model ----
(***************************************************************************)
(* A model of noir-ivc: the bridge from ACIR assert-zero opcodes to the    *)
(* R1CS steps of an IVC program, and the chained execution of those steps. *)
(*                                                                         *)
(* Field elements of both encodings (ark_ff and ff) are residues           *)
(* 0 .. FieldOrder-1.  A witness is a function from a finite set of        *)
(* witness identifiers to field elements (a BTreeMap<WitnessID, F>).       *)
(***************************************************************************)
EXTENDS Integers, Sequences, FiniteSets, TLC

VARIABLES
    structure,       \* CircuitStructure {gates, program.io} of the chain
    program,         \* what functions::compile left: none, a panic, or the IVCProgram
    madeStep,        \* the last call of make_step: its input and the Step it returned
    circuit,         \* the UnexecutedCircuit held by the closure of execute_steps
    start_step_num,  \* the start_step_num execute_steps was called with
    pending,         \* private inputs the caller's iterator still holds
    last,            \* the last item the execute_steps iterator produced
    lastOk,          \* the last ExecutionResult of a successful execute
    nOk,             \* number of successful executes so far
    acvmStatus,      \* status of the last ACVM solve, "NotRun" when it was not reached
    solverCalls,     \* number of times a private input reached ACVM::solve
    failed,          \* an execute of this chain has returned Err
    fnIn,            \* input of the function under study (function specifications)
    fnOut            \* its result, "NotCalled" before the call

chainVars == <<structure, program, madeStep, circuit, start_step_num, pending,
               last, lastOk, nOk, acvmStatus, solverCalls, failed>>
fnVars == <<fnIn, fnOut>>
vars == <<structure, program, madeStep, circuit, start_step_num, pending,
          last, lastOk, nOk, acvmStatus, solverCalls, failed, fnIn, fnOut>>

-----------------------------------------------------------------------------
(* Bounds of the model *)

\* order of the field both encodings represent (BN254's scalar field in the tests)
FieldOrder == 3
\* number of private inputs the caller's iterator yields
MaxSteps == 2
\* largest start_step_num
MaxStart == 1
\* order of the field the bridge is exercised on by itself
BridgeOrder == 257

Field == 0 .. (FieldOrder - 1)
FZero == 0
FOne == 1 % FieldOrder
FAdd(a, b) == (a + b) % FieldOrder
FMul(a, b) == (a * b) % FieldOrder
FNeg(a) == (FieldOrder - a) % FieldOrder

EmptyWitness == [k \in {} |-> FZero]

SetMax(S) == CHOOSE x \in S : \A y \in S : y <= x
SetMin(S) == CHOOSE x \in S : \A y \in S : x <= y

\* the elements of a BTreeSet in iteration (ascending) order
RECURSIVE Sorted(_)
Sorted(S) ==
    IF S = {} THEN <<>>
    ELSE LET m == SetMin(S) IN <<m>> \o Sorted(S \ {m})

Range(s) == {s[i] : i \in 1 .. Len(s)}

-----------------------------------------------------------------------------
(* Field bridge: src/src/field.rs *)

HexChars == <<"0", "1", "2", "3", "4", "5", "6", "7",
              "8", "9", "a", "b", "c", "d", "e", "f">>
DecChars == <<"0", "1", "2", "3", "4", "5", "6", "7", "8", "9">>

\* number of hex digits in the Debug rendering of an ff element ("0x" + 64 digits)
HexWidth == 64

\* Result::Ok, Result::Err, and a panic (a failed assert!, expect() or unwrap())
Ok(v) == [ok |-> TRUE, panic |-> FALSE, val |-> v]
Err(e) == [ok |-> FALSE, panic |-> FALSE, val |-> e]
Panic(m) == [ok |-> FALSE, panic |-> TRUE, val |-> m]

\* format!("{}", n) of a natural: decimal digits, no leading zero
RECURSIVE DecText(_)
DecText(n) ==
    IF n < 10 THEN <<DecChars[n + 1]>>
    ELSE Append(DecText(n \div 10), DecChars[(n % 10) + 1])

\* n shifted right by p hex digits
RECURSIVE ShiftHex(_, _)
ShiftHex(n, p) == IF p = 0 \/ n = 0 THEN n ELSE ShiftHex(n \div 16, p - 1)

\* w hex digits of n, most significant first, zero padded
HexText(n, w) == [i \in 1 .. w |-> HexChars[(ShiftHex(n, w - i) % 16) + 1]]

\* format!("{:?}", x) of an ff element
DebugFF(x) == <<"0", "x">> \o HexText(x, HexWidth)

DigitOf(chars, c) == (CHOOSE i \in 1 .. Len(chars) : chars[i] = c) - 1

RECURSIVE HexFold(_)
\* a faulty big-integer parse: the digits are read in radix 10
HexFoldRadix10(text) ==
    IF Len(text) = 0 THEN 0
    ELSE HexFold(SubSeq(text, 1, Len(text) - 1)) * 10
         + DigitOf(HexChars, text[Len(text)])

\* the digits of a big integer read in radix 16
HexFold(text) ==
    IF Len(text) = 0 THEN 0
    ELSE HexFold(SubSeq(text, 1, Len(text) - 1)) * 16
         + DigitOf(HexChars, text[Len(text)])

\* num::BigInt::from_str_radix(text, 16): leading zeros add nothing
FromStrRadix16(text) ==
    LET nz == {i \in 1 .. Len(text) : text[i] # "0"}
    IN IF nz = {} THEN 0 ELSE HexFold(SubSeq(text, SetMin(nz), Len(text)))

\* the digit loop of from_str / from_str_vartime in the field of order p:
\* res = res * 10 + digit
RECURSIVE DecFoldIn(_, _)
DecFoldIn(text, p) ==
    IF Len(text) = 0 THEN 0
    ELSE (DecFoldIn(SubSeq(text, 1, Len(text) - 1), p) * (10 % p)
          + (DigitOf(DecChars, text[Len(text)]) % p)) % p

DecFold(text) == DecFoldIn(text, FieldOrder)

\* OF::from_str(&text) and OF::from_str_vartime(&text): a decimal text read into
\* the field of order p; no empty text, no leading zero, digits only
ParseFieldIn(text, p) ==
    IF Len(text) = 0 THEN Err("parse")
    ELSE IF text = <<"0">> THEN Ok(0)
    ELSE IF \E i \in 1 .. Len(text) : text[i] \notin Range(DecChars) THEN Err("parse")
    ELSE IF text[1] = "0" THEN Err("parse")
    ELSE Ok(DecFoldIn(text, p))

ParseField(text) == ParseFieldIn(text, FieldOrder)

\* generic_ark_ff_to_prime_field::<IF, OF>, both of order p: ark encoding -> ff
\* encoding
ArkToPrimeField(input, p) ==
    IF input = 0 THEN Ok(0)
    ELSE LET text == DecText(input)
             r == ParseFieldIn(text, p)
         IN IF r.ok THEN r ELSE Err(<<"FieldConversionError", text>>)

\* ff_to_ark_prime_field::<IF, OF>, both of order p: ff encoding -> ark encoding
PrimeFieldToArk(input, p) ==
    IF input = 0 THEN Ok(0)
    ELSE LET dbg == DebugFF(input)
             bn == FromStrRadix16(SubSeq(dbg, 3, Len(dbg)))
             text == DecText(bn)
             r == ParseFieldIn(text, p)
         IN IF r.ok THEN r ELSE Err(<<"FieldConversionError", text>>)

\* generic_ark_ff_to_prime_field on the field of the circuits
generic_ark_ff_to_prime_field(input) == ArkToPrimeField(input, FieldOrder)

\* ff_to_ark_prime_field on the field of the circuits
ff_to_ark_prime_field(input) == PrimeFieldToArk(input, FieldOrder)

\* the conversions of every element, computed once
ArkToFF == [x \in Field |-> generic_ark_ff_to_prime_field(x)]
FFToArk == [x \in Field |-> ff_to_ark_prime_field(x)]

-----------------------------------------------------------------------------
(* Arithmetic gates and opcodes: src/src/gate.rs *)

\* From<AcirArithGate<F>> for Opcode; expect() panics on a conversion error
ToOpcode(gate) ==
    LET mulOk == \A i \in 1 .. Len(gate.mul_terms) : FFToArk[gate.mul_terms[i][1]].ok
        addOk == \A i \in 1 .. Len(gate.add_terms) : FFToArk[gate.add_terms[i][1]].ok
        constOk == FFToArk[gate.constant_term].ok
    IN IF ~mulOk THEN Panic("mul terms conversion error")
       ELSE IF ~addOk THEN Panic("add terms conversion error")
       ELSE IF ~constOk THEN Panic("constant term conversion error")
       ELSE Ok([kind |-> "AssertZero",
                mul_terms |-> [i \in 1 .. Len(gate.mul_terms) |->
                    <<FFToArk[gate.mul_terms[i][1]].val,
                      gate.mul_terms[i][2], gate.mul_terms[i][3]>>],
                linear_combinations |-> [i \in 1 .. Len(gate.add_terms) |->
                    <<FFToArk[gate.add_terms[i][1]].val, gate.add_terms[i][2]>>],
                q_c |-> FFToArk[gate.constant_term].val])

\* a faulty conversion back: the linear terms come out in reverse order
FromOpcodeReversed(opcode) ==
    IF opcode.kind # "AssertZero" THEN Panic("Unsupported opcode")
    ELSE LET n == Len(opcode.linear_combinations)
         IN Ok([mul_terms |-> [i \in 1 .. Len(opcode.mul_terms) |->
                        <<ArkToFF[opcode.mul_terms[i][1]].val,
                          opcode.mul_terms[i][2], opcode.mul_terms[i][3]>>],
                add_terms |-> [i \in 1 .. n |->
                        <<ArkToFF[opcode.linear_combinations[n + 1 - i][1]].val,
                          opcode.linear_combinations[n + 1 - i][2]>>],
                constant_term |-> ArkToFF[opcode.q_c].val])

\* From<Opcode> for AcirArithGate<F>; panics on another opcode kind
FromOpcode(opcode) ==
    IF opcode.kind # "AssertZero" THEN Panic("Unsupported opcode")
    ELSE LET mulOk == \A i \in 1 .. Len(opcode.mul_terms) :
                          ArkToFF[opcode.mul_terms[i][1]].ok
             addOk == \A i \in 1 .. Len(opcode.linear_combinations) :
                          ArkToFF[opcode.linear_combinations[i][1]].ok
             constOk == ArkToFF[opcode.q_c].ok
         IN IF ~mulOk THEN Panic("mul terms conversion error")
            ELSE IF ~addOk THEN Panic("add terms conversion error")
            ELSE IF ~constOk THEN Panic("constant term conversion error")
            ELSE Ok([mul_terms |-> [i \in 1 .. Len(opcode.mul_terms) |->
                        <<ArkToFF[opcode.mul_terms[i][1]].val,
                          opcode.mul_terms[i][2], opcode.mul_terms[i][3]>>],
                     add_terms |-> [i \in 1 .. Len(opcode.linear_combinations) |->
                        <<ArkToFF[opcode.linear_combinations[i][1]].val,
                          opcode.linear_combinations[i][2]>>],
                     constant_term |-> ArkToFF[opcode.q_c].val])

-----------------------------------------------------------------------------
(* IO profile: src/src/program.rs, extract_io *)

\* acvm Circuit::circuit_arguments(): private and public parameters
circuit_arguments(c) == c.private_parameters \cup c.public_parameters

\* acvm Circuit::public_inputs(): public parameters and return values
public_inputs(c) == c.public_parameters \cup c.return_values

\* extract_io; assert!(is_superset) panics
extract_io(acvm_circuit, private_outputs) ==
    LET returns == acvm_circuit.return_values
    IN IF ~(private_outputs \subseteq returns) THEN Panic("assertion failed")
       ELSE LET public_outs == returns \ private_outputs
                public_ins == public_inputs(acvm_circuit) \ public_outs
                private_ins == (circuit_arguments(acvm_circuit) \ public_outs)
                                   \ public_ins
            IN Ok([public_inputs |-> public_ins,
                   private_inputs |-> private_ins,
                   public_outputs |-> public_outs,
                   private_outputs |-> private_outputs])

-----------------------------------------------------------------------------
(* Circuit structure: src/src/program.rs *)

\* IVCProgram {io, num_witness, r1cs_constraints}; curve and version are fixed
\* strings copied along and left out
IVCProgram(io, n, cs) == [io |-> io, num_witness |-> n, r1cs_constraints |-> cs]

\* From<ACVMCircuit> for CircuitStructure
StructureFrom(acvm_circuit) ==
    LET conv == [i \in 1 .. Len(acvm_circuit.opcodes) |->
                    FromOpcode(acvm_circuit.opcodes[i])]
        io == extract_io(acvm_circuit, {})
    IN IF \E i \in 1 .. Len(conv) : ~conv[i].ok
       THEN conv[CHOOSE i \in 1 .. Len(conv) :
                     ~conv[i].ok /\ \A j \in 1 .. (i - 1) : conv[j].ok]
       ELSE IF ~io.ok THEN io
       ELSE Ok([gates |-> [i \in 1 .. Len(conv) |-> conv[i].val],
                program |-> IVCProgram(io.val, 0, <<>>)])

\* the identifiers a gate names in its mul_terms and add_terms
GateIds(gate) ==
    {gate.mul_terms[i][2] : i \in 1 .. Len(gate.mul_terms)}
    \cup {gate.mul_terms[i][3] : i \in 1 .. Len(gate.mul_terms)}
    \cup {gate.add_terms[i][2] : i \in 1 .. Len(gate.add_terms)}

\* witness_set of make_trivial_witness: the IO profile and every gate term
WitnessSet(self) ==
    self.program.io.public_inputs \cup self.program.io.private_inputs
    \cup self.program.io.public_outputs \cup self.program.io.private_outputs
    \cup UNION {GateIds(self.gates[g]) : g \in 1 .. Len(self.gates)}

\* make_trivial_witness: max().unwrap() panics on the empty set, assert_eq!
\* panics unless max = len - 1
make_trivial_witness(self) ==
    LET witness_set == WitnessSet(self)
    IN IF witness_set = {} THEN Panic("unwrap on None")
       ELSE IF SetMax(witness_set) # Cardinality(witness_set) - 1
       THEN Panic("assertion failed: left == right")
       ELSE Ok([id \in witness_set |-> FZero])

\* a faulty validity test: both key sets have to match
is_valid_input_both(self, public_input, private_input) ==
    /\ DOMAIN public_input = self.program.io.public_inputs
    /\ DOMAIN private_input = self.program.io.private_inputs

\* is_valid_input
is_valid_input(self, public_input, private_input) ==
    LET public_inputs_set_1 == DOMAIN public_input
        private_inputs_set_1 == DOMAIN private_input
        public_inputs_set_2 == self.program.io.public_inputs
        private_inputs_set_2 == self.program.io.private_inputs
    IN \/ public_inputs_set_1 = public_inputs_set_2
       \/ private_inputs_set_1 = private_inputs_set_2

\* Term::LC {coefficient, var_id} and Term::Const(value)
LCTerm(c, id) == [kind |-> "LC", coefficient |-> c, var_id |-> id]
ConstTerm(v) == [kind |-> "Const", value |-> v]

\* BTreeMap::insert: a new key is added, an existing one overwritten
Insert(w, k, v) == [x \in DOMAIN w \cup {k} |-> IF x = k THEN v ELSE w[x]]

\* a faulty multiplication step: the product wire is given the sum of its factors
MulTermStepSum(acc, term) ==
    LET coeff == term[1]
        left_id == term[2]
        right_id == term[3]
    IN IF ~acc.ok THEN acc
       ELSE IF left_id \notin DOMAIN acc.witness
       THEN [acc EXCEPT !.ok = FALSE, !.panic = "left not found"]
       ELSE IF right_id \notin DOMAIN acc.witness
       THEN [acc EXCEPT !.ok = FALSE, !.panic = "right not found"]
       ELSE LET left_val == acc.witness[left_id]
                right_val == acc.witness[right_id]
                prod_val == FAdd(left_val, right_val)
                prod_id == acc.num_witness
                constraint == [a |-> <<LCTerm(left_val, left_id)>>,
                               b |-> <<LCTerm(right_val, right_id)>>,
                               c |-> <<LCTerm(prod_val, prod_id)>>]
            IN [acc EXCEPT
                   !.num_witness = acc.num_witness + 1,
                   !.witness = Insert(acc.witness, prod_id, prod_val),
                   !.r1cs_constraints = Append(acc.r1cs_constraints, constraint),
                   !.big_lc_a = Append(acc.big_lc_a, LCTerm(coeff, prod_id))]

\* a faulty multiplication step: num_witness is not advanced past the new wire
MulTermStepNoIncrement(acc, term) ==
    LET coeff == term[1]
        left_id == term[2]
        right_id == term[3]
    IN IF ~acc.ok THEN acc
       ELSE IF left_id \notin DOMAIN acc.witness
       THEN [acc EXCEPT !.ok = FALSE, !.panic = "left not found"]
       ELSE IF right_id \notin DOMAIN acc.witness
       THEN [acc EXCEPT !.ok = FALSE, !.panic = "right not found"]
       ELSE LET left_val == acc.witness[left_id]
                right_val == acc.witness[right_id]
                prod_val == FMul(left_val, right_val)
                prod_id == acc.num_witness
                constraint == [a |-> <<LCTerm(left_val, left_id)>>,
                               b |-> <<LCTerm(right_val, right_id)>>,
                               c |-> <<LCTerm(prod_val, prod_id)>>]
            IN [acc EXCEPT
                   !.witness = Insert(acc.witness, prod_id, prod_val),
                   !.r1cs_constraints = Append(acc.r1cs_constraints, constraint),
                   !.big_lc_a = Append(acc.big_lc_a, LCTerm(coeff, prod_id))]

\* make_step, one multiplication term (coeff, left, right) of the inner loop
MulTermStep(acc, term) ==
    LET coeff == term[1]
        left_id == term[2]
        right_id == term[3]
    IN IF ~acc.ok THEN acc
       ELSE IF left_id \notin DOMAIN acc.witness
       THEN [acc EXCEPT !.ok = FALSE, !.panic = "left not found"]
       ELSE IF right_id \notin DOMAIN acc.witness
       THEN [acc EXCEPT !.ok = FALSE, !.panic = "right not found"]
       ELSE LET left_val == acc.witness[left_id]
                right_val == acc.witness[right_id]
                prod_val == FMul(left_val, right_val)
                prod_id == acc.num_witness
                constraint == [a |-> <<LCTerm(left_val, left_id)>>,
                               b |-> <<LCTerm(right_val, right_id)>>,
                               c |-> <<LCTerm(prod_val, prod_id)>>]
            IN [acc EXCEPT
                   !.num_witness = acc.num_witness + 1,
                   !.witness = Insert(acc.witness, prod_id, prod_val),
                   !.r1cs_constraints = Append(acc.r1cs_constraints, constraint),
                   !.big_lc_a = Append(acc.big_lc_a, LCTerm(coeff, prod_id))]

RECURSIVE MulTermsLoop(_, _, _)
MulTermsLoop(acc, terms, i) ==
    IF i > Len(terms) THEN acc
    ELSE MulTermsLoop(MulTermStep(acc, terms[i]), terms, i + 1)

\* make_step, the body of gates.iter().for_each
GateStep(acc, gate) ==
    LET muls == MulTermsLoop([acc EXCEPT !.big_lc_a = <<>>], gate.mul_terms, 1)
        adds == [i \in 1 .. Len(gate.add_terms) |->
                    LCTerm(gate.add_terms[i][1], gate.add_terms[i][2])]
        big_lc_a == (muls.big_lc_a \o adds) \o <<ConstTerm(gate.constant_term)>>
        closing == [a |-> big_lc_a, b |-> <<ConstTerm(FOne)>>, c |-> <<>>]
    IN IF ~muls.ok THEN muls
       ELSE [muls EXCEPT !.r1cs_constraints = Append(muls.r1cs_constraints, closing),
                         !.big_lc_a = big_lc_a]

RECURSIVE GatesLoop(_, _, _)
GatesLoop(acc, gates, g) ==
    IF g > Len(gates) THEN acc
    ELSE GatesLoop(GateStep(acc, gates[g]), gates, g + 1)

\* make_step: the Step {witness, program} of a solved witness; a multiplication
\* operand missing from the witness panics
make_step(self, solved_witness) ==
    LET acc0 == [ok |-> TRUE, panic |-> "",
                 witness |-> solved_witness,
                 num_witness |-> Cardinality(DOMAIN solved_witness),
                 r1cs_constraints |-> <<>>,
                 big_lc_a |-> <<>>]
        acc == GatesLoop(acc0, self.gates, 1)
    IN IF ~acc.ok THEN Panic(acc.panic)
       ELSE Ok([witness |-> acc.witness,
                program |-> IVCProgram(self.program.io, acc.num_witness,
                                       acc.r1cs_constraints)])

\* CircuitStructure::compile: the program of the step of the trivial witness
compile(self) ==
    LET solved_witness == make_trivial_witness(self)
    IN IF ~solved_witness.ok THEN solved_witness
       ELSE LET step == make_step(self, solved_witness.val)
            IN IF ~step.ok THEN step ELSE Ok(step.val.program)

-----------------------------------------------------------------------------
(* Collaborators outside the repository: the ivc_program crate and the ACVM *)

None == <<>>
Some(x) == <<x>>

\* Witness::extract_subset: the entries of the given identifiers, an error when
\* one of them has no entry
extract_subset(w, ids) ==
    IF ids \subseteq DOMAIN w THEN Ok([k \in ids |-> w[k]])
    ELSE Err(<<"IVCProgramError", "missing witness">>)

\* Witness::make_next_input_witness: the value of the K-th public output becomes
\* the value of the K-th public input
make_next_input_witness(public_output, io) ==
    LET ins == Sorted(io.public_inputs)
        outs == Sorted(io.public_outputs)
        slots == {k \in 1 .. Len(ins) : k <= Len(outs) /\ outs[k] \in DOMAIN public_output}
    IN [id \in {ins[k] : k \in slots} |->
            public_output[outs[CHOOSE k \in slots : ins[k] = id]]]

\* From<Witness<F>> for IO<F>: the values in identifier order
WitnessToIO(w) == [k \in 1 .. Cardinality(DOMAIN w) |-> w[Sorted(DOMAIN w)[k]]]

\* the identifiers an opcode names
OpcodeIds(op) ==
    {op.mul_terms[i][2] : i \in 1 .. Len(op.mul_terms)}
    \cup {op.mul_terms[i][3] : i \in 1 .. Len(op.mul_terms)}
    \cup {op.linear_combinations[i][2] : i \in 1 .. Len(op.linear_combinations)}

RECURSIVE SumSeq(_)
SumSeq(s) == IF Len(s) = 0 THEN FZero ELSE FAdd(s[1], SumSeq(Tail(s)))

\* the value of the expression of an opcode under an assignment of its identifiers
OpcodeValue(op, w) ==
    FAdd(FAdd(SumSeq([i \in 1 .. Len(op.mul_terms) |->
                  FMul(op.mul_terms[i][1],
                       FMul(w[op.mul_terms[i][2]], w[op.mul_terms[i][3]]))]),
              SumSeq([i \in 1 .. Len(op.linear_combinations) |->
                  FMul(op.linear_combinations[i][1], w[op.linear_combinations[i][2]])])),
         op.q_c)

StatusSolved == <<"Solved">>
StatusNotRun == <<"NotRun">>
\* the statuses ACVM::solve ends with on assert-zero opcodes, besides Solved
StatusFailures == {<<"Failure", "UnsatisfiedConstrain">>,
                   <<"Failure", "OpcodeNotSolvable">>}

\* format!("{:?}", status)
DebugStatus(st) == IF Len(st) = 1 THEN st ELSE <<st[1], "(", st[2], ")">>

\* ACVM::new(..).solve() and finalize(): the solver is opaque; when it ends Solved
\* its witness map extends the initial one, assigns every identifier the opcodes
\* name and makes every opcode's expression zero; it may end in a failure instead
ACVMSolve(opcodes, initial_witness) ==
    LET named == UNION {OpcodeIds(opcodes[i]) : i \in 1 .. Len(opcodes)}
        unknown == named \ DOMAIN initial_witness
        maps == {[k \in DOMAIN initial_witness \cup unknown |->
                     IF k \in unknown THEN ext[k] ELSE initial_witness[k]] :
                 ext \in [unknown -> Field]}
    IN {[status |-> StatusSolved, witness |-> m] :
            m \in {x \in maps : \A i \in 1 .. Len(opcodes) :
                                  OpcodeValue(opcodes[i], x) = FZero}}
       \cup {[status |-> f, witness |-> EmptyWitness] : f \in StatusFailures}

-----------------------------------------------------------------------------
(* Step execution: src/src/execute.rs *)

\* UnexecutedCircuit::new
UnexecutedCircuit(iteration_number, init_public_input, circuit_structure) ==
    [iteration_number |-> iteration_number,
     public_input |-> init_public_input,
     structure |-> circuit_structure]

\* execute: "merge public and private input into one"; extend() lets the private
\* entry win on a shared key
AssignedWitness(self, private_input) ==
    [k \in DOMAIN self.public_input \cup DOMAIN private_input |->
        IF k \in DOMAIN private_input THEN private_input[k] ELSE self.public_input[k]]

\* execute: the initial witness handed to the ACVM, every value through the bridge
InitialWitness(self, private_input) ==
    LET assigned_witness == AssignedWitness(self, private_input)
        bad == {k \in DOMAIN assigned_witness : ~FFToArk[assigned_witness[k]].ok}
    IN IF bad # {} THEN FFToArk[assigned_witness[SetMin(bad)]]
       ELSE Ok([k \in DOMAIN assigned_witness |-> FFToArk[assigned_witness[k]].val])

\* execute: the opcodes rebuilt from the gates
Opcodes(self) ==
    LET conv == [i \in 1 .. Len(self.structure.gates) |->
                    ToOpcode(self.structure.gates[i])]
    IN IF \E i \in 1 .. Len(conv) : ~conv[i].ok
       THEN conv[CHOOSE i \in 1 .. Len(conv) :
                     ~conv[i].ok /\ \A j \in 1 .. (i - 1) : conv[j].ok]
       ELSE Ok([i \in 1 .. Len(conv) |-> conv[i].val])

\* a faulty status match: an unsolvable opcode is let through
SolveStatusLenient(status) ==
    IF status \in {StatusSolved, <<"Failure", "OpcodeNotSolvable">>} THEN Ok(None)
    ELSE Err(<<"ACVMSolveError", DebugStatus(status)>>)

\* execute: match status { Solved => Ok(()), _ => Err(ACVMSolveError) }?
SolveStatus(status) ==
    IF status = StatusSolved THEN Ok(None)
    ELSE Err(<<"ACVMSolveError", DebugStatus(status)>>)

\* execute: the solver's witness map back through the bridge
SolvedWitness(witness_map) ==
    IF \E k \in DOMAIN witness_map : ~ArkToFF[witness_map[k]].ok
    THEN Panic("output fill error")
    ELSE Ok([k \in DOMAIN witness_map |-> ArkToFF[witness_map[k]].val])

\* a faulty successor: the public input is carried over instead of remapped
NextCircuitStaleInput(self, public_output) ==
    [iteration_number |-> self.iteration_number + 1,
     public_input |-> self.public_input,
     structure |-> self.structure]

\* a faulty successor: the iteration number is not advanced
NextCircuitSameIteration(self, public_output) ==
    [iteration_number |-> self.iteration_number,
     public_input |-> make_next_input_witness(public_output, self.structure.program.io),
     structure |-> self.structure]

\* execute: the successor state
NextCircuit(self, public_output) ==
    [iteration_number |-> self.iteration_number + 1,
     public_input |-> make_next_input_witness(public_output, self.structure.program.io),
     structure |-> self.structure]

\* execute: from the solved witness to the returned triple
Finish(self, solved_witness) ==
    LET io == self.structure.program.io
        public_input == extract_subset(solved_witness, io.public_inputs)
        private_input == extract_subset(solved_witness, io.private_inputs)
        public_output == extract_subset(solved_witness, io.public_outputs)
        private_output == extract_subset(solved_witness, io.private_outputs)
    IN IF ~public_input.ok THEN public_input
       ELSE IF ~private_input.ok THEN private_input
       ELSE IF ~public_output.ok THEN public_output
       ELSE IF ~private_output.ok THEN private_output
       ELSE LET result == [iteration_number |-> self.iteration_number,
                           public_input |-> public_input.val,
                           private_input |-> private_input.val,
                           public_output |-> public_output.val,
                           private_output |-> private_output.val]
                step == make_step(self.structure, solved_witness)
            IN IF ~step.ok THEN step
               ELSE Ok([result |-> result,
                        witness |-> step.val.witness,
                        next |-> NextCircuit(self, public_output.val),
                        step |-> step.val])

\* whether execute gets as far as ACVM::solve with this private input
ReachesSolver(self, private_input) ==
    /\ is_valid_input(self.structure, self.public_input, private_input)
    /\ InitialWitness(self, private_input).ok
    /\ Opcodes(self).ok

\* UnexecutedCircuit::execute; acvm is what the solver answered, read only when
\* the solver is reached
execute(self, private_input, acvm) ==
    IF ~is_valid_input(self.structure, self.public_input, private_input)
    THEN Panic("assertion failed: is_valid_input")
    ELSE LET initial_witness == InitialWitness(self, private_input)
             opcodes == Opcodes(self)
         IN IF ~initial_witness.ok THEN initial_witness
            ELSE IF ~opcodes.ok THEN opcodes
            ELSE LET status == SolveStatus(acvm.status)
                 IN IF ~status.ok THEN status
                    ELSE LET solved_witness == SolvedWitness(acvm.witness)
                         IN IF ~solved_witness.ok THEN solved_witness
                            ELSE Finish(self, solved_witness.val)

-----------------------------------------------------------------------------
(* The circuits the chain is run on (ark encoding) *)

NegOne == FieldOrder - 1

AssertZero(m, l, q) ==
    [kind |-> "AssertZero", mul_terms |-> m, linear_combinations |-> l, q_c |-> q]

\* the test circuit: w0 * w1 - 1 = 0, w2 - w1 = 0 (w2 = invert(w0), hint w1)
Invert ==
    [private_parameters |-> {1}, public_parameters |-> {0}, return_values |-> {2},
     opcodes |-> <<AssertZero(<< <<FOne, 0, 1>> >>, <<>>, NegOne),
                   AssertZero(<<>>, << <<FOne, 2>>, <<NegOne, 1>> >>, FZero)>>]

\* w0 * w0 - w1 = 0, no private input
Square ==
    [private_parameters |-> {}, public_parameters |-> {0}, return_values |-> {1},
     opcodes |-> <<AssertZero(<< <<FOne, 0, 0>> >>, << <<NegOne, 1>> >>, FZero)>>]

\* w1 * w1 + w2 = 0: identifier 0 is not used, the identifiers are not dense
Sparse ==
    [private_parameters |-> {}, public_parameters |-> {1}, return_values |-> {2},
     opcodes |-> <<AssertZero(<< <<FOne, 1, 1>> >>, << <<FOne, 2>> >>, FZero)>>]

\* w0 * w1 + w0 * w0 - w2 = 0: two multiplication terms in one gate
TwoMul ==
    [private_parameters |-> {1}, public_parameters |-> {0}, return_values |-> {2},
     opcodes |-> <<AssertZero(<< <<FOne, 0, 1>>, <<FOne, 0, 0>> >>,
                              << <<NegOne, 2>> >>, FZero)>>]

Circuits == {Invert, Square, Sparse, TwoMul}

\* the identifiers an input may name: those of the circuits, used or skipped
WitnessIds ==
    0 .. SetMax(UNION {c.private_parameters \cup c.public_parameters
                           \cup c.return_values : c \in Circuits})

\* every Witness<F> over these identifiers
Witnesses == UNION {[S -> Field] : S \in SUBSET WitnessIds}

\* the first public inputs execute_steps is called with: every witness of the
\* declared public inputs, and the all-zero witness of every other key set
FirstPublicInputs(io) ==
    {w \in Witnesses : DOMAIN w = io.public_inputs}
    \cup {[k \in S |-> FZero] : S \in SUBSET WitnessIds}

-----------------------------------------------------------------------------
(* The chain: functions::compile and functions::execute_steps, src/src/lib.rs *)

NoItem ==
    [kind |-> "none", valid |-> TRUE, error |-> None, result |-> None,
     witness |-> None, next |-> None, next_input |-> None,
     used_public_input |-> None]

FnIdle == fnIn = None /\ fnOut = None

ChainIdle ==
    /\ structure = None
    /\ program = None
    /\ madeStep = None
    /\ circuit = None
    /\ start_step_num = 0
    /\ pending = 0
    /\ last = NoItem
    /\ lastOk = None
    /\ nOk = 0
    /\ acvmStatus = StatusNotRun
    /\ solverCalls = 0
    /\ failed = FALSE

\* a circuit was loaded and made a CircuitStructure; execute_steps was called
\* with it, a first public input and a start step number
Init ==
    /\ \E c \in Circuits : structure = StructureFrom(c).val
    /\ program = [kind |-> "none", program |-> None]
    /\ madeStep = None
    /\ start_step_num \in {0, MaxStart}
    /\ \E first_public_input \in FirstPublicInputs(structure.program.io) :
           circuit = [iteration_number |-> start_step_num,
                      public_input |-> first_public_input]
    /\ pending = MaxSteps
    /\ last = NoItem
    /\ lastOk = None
    /\ nOk = 0
    /\ acvmStatus = StatusNotRun
    /\ solverCalls = 0
    /\ failed = FALSE
    /\ FnIdle

\* the process is gone once a panic has unwound it
Running == last.kind # "panic" /\ program.kind # "panic"

\* CircuitStructure::compile, as functions::compile calls it
Compile ==
    /\ Running
    /\ program.kind = "none"
    /\ LET trivial == make_trivial_witness(structure)
           r == compile(structure)
       IN /\ program' = IF r.ok THEN [kind |-> "ok", program |-> Some(r.val)]
                         ELSE [kind |-> "panic", program |-> None]
          /\ madeStep' = IF trivial.ok /\ make_step(structure, trivial.val).ok
                          THEN Some([solved |-> trivial.val,
                                     step |-> make_step(structure, trivial.val).val])
                          ELSE madeStep
    /\ UNCHANGED <<structure, circuit, start_step_num, pending, last, lastOk, nOk,
                   acvmStatus, solverCalls, failed, fnIn, fnOut>>

\* what the closure of execute_steps yields for the outcome r of execute
Item(self, private_input, r) ==
    IF r.ok
    THEN [kind |-> "ok", valid |-> TRUE, error |-> None,
          result |-> Some(r.val.result),
          witness |-> Some(r.val.witness),
          next |-> Some([iteration_number |-> r.val.next.iteration_number,
                         public_input |-> r.val.next.public_input]),
          next_input |-> Some(WitnessToIO(r.val.next.public_input)),
          used_public_input |-> Some(self.public_input)]
    ELSE [kind |-> IF r.panic THEN "panic" ELSE "err",
          valid |-> is_valid_input(self.structure, self.public_input, private_input),
          error |-> Some(r.val),
          result |-> None, witness |-> None, next |-> None, next_input |-> None,
          used_public_input |-> None]

\* what the ACVM may answer when execute reaches it with this private input
Answers(self, private_input) ==
    IF ReachesSolver(self, private_input)
    THEN ACVMSolve(Opcodes(self).val, InitialWitness(self, private_input).val)
    ELSE {[status |-> StatusNotRun, witness |-> EmptyWitness]}

\* the caller takes the next item of the iterator execute_steps returned: the
\* closure clones the circuit state, executes it on the next private input and,
\* on Ok, keeps the successor state
Pull ==
    /\ Running
    /\ pending > 0
    /\ \E private_input \in Witnesses :
       \E self \in {UnexecutedCircuit(circuit.iteration_number,
                                      circuit.public_input, structure)} :
       \E acvm \in Answers(self, private_input) :
       \E r \in {execute(self, private_input, acvm)} :
          /\ last' = Item(self, private_input, r)
          /\ circuit' = IF r.ok
                         THEN [iteration_number |-> r.val.next.iteration_number,
                               public_input |-> r.val.next.public_input]
                         ELSE circuit
          /\ lastOk' = IF r.ok THEN Some(r.val.result) ELSE lastOk
          /\ nOk' = IF r.ok THEN nOk + 1 ELSE nOk
          /\ madeStep' = IF r.ok
                          THEN Some([solved |-> SolvedWitness(acvm.witness).val,
                                     step |-> r.val.step])
                          ELSE madeStep
          /\ acvmStatus' = acvm.status
          /\ solverCalls' = IF acvm.status # StatusNotRun
                             THEN solverCalls + 1 ELSE solverCalls
          /\ failed' = (failed \/ (~r.ok /\ ~r.panic))
    /\ pending' = pending - 1
    /\ UNCHANGED <<structure, program, start_step_num, fnIn, fnOut>>

Next == Compile \/ Pull

Spec == Init /\ [][Next]_vars

-----------------------------------------------------------------------------
(* Function specifications: one call of a function on inputs drawn at Init *)

\* the circuits extract_io is called on: every choice of parameter and return sets
IOCircuits ==
    {[private_parameters |-> a, public_parameters |-> b, return_values |-> r,
      opcodes |-> <<>>] :
        a \in SUBSET WitnessIds, b \in SUBSET WitnessIds, r \in SUBSET WitnessIds}

InitIO ==
    /\ ChainIdle
    /\ \E c \in IOCircuits : \E private_outputs \in SUBSET WitnessIds :
           fnIn = [acvm_circuit |-> c, private_outputs |-> private_outputs]
    /\ fnOut = None

CallExtractIO ==
    /\ fnOut = None
    /\ fnOut' = Some(extract_io(fnIn.acvm_circuit, fnIn.private_outputs))
    /\ UNCHANGED <<chainVars, fnIn>>

SpecIO == InitIO /\ [][CallExtractIO]_vars

\* witnesses told apart by their key set only
KeyWitnesses == {[k \in S |-> FZero] : S \in SUBSET WitnessIds}

InitValid ==
    /\ ChainIdle
    /\ \E c \in IOCircuits : \E pub \in KeyWitnesses : \E priv \in KeyWitnesses :
           fnIn = [self |-> StructureFrom(c).val,
                   public_input |-> pub, private_input |-> priv]
    /\ fnOut = None

CallIsValidInput ==
    /\ fnOut = None
    /\ fnOut' = Some(is_valid_input(fnIn.self, fnIn.public_input, fnIn.private_input))
    /\ UNCHANGED <<chainVars, fnIn>>

SpecValid == InitValid /\ [][CallIsValidInput]_vars

\* gate lists naming no identifier, one, or two in one term
TermGates ==
    {<<>>}
    \cup {<<[mul_terms |-> << <<FOne, l, r>> >>, add_terms |-> <<>>,
             constant_term |-> FZero]>> : l \in WitnessIds, r \in WitnessIds}
    \cup {<<[mul_terms |-> <<>>, add_terms |-> << <<FOne, i>> >>,
             constant_term |-> FOne]>> : i \in WitnessIds}

InitTrivial ==
    /\ ChainIdle
    /\ \E c \in IOCircuits : \E gates \in TermGates :
           /\ c.private_parameters = {}
           /\ fnIn = [StructureFrom(c).val EXCEPT !.gates = gates]
    /\ fnOut = None

CallMakeTrivialWitness ==
    /\ fnOut = None
    /\ fnOut' = Some(make_trivial_witness(fnIn))
    /\ UNCHANGED <<chainVars, fnIn>>

SpecTrivial == InitTrivial /\ [][CallMakeTrivialWitness]_vars

\* one element through the bridge and back, starting from either encoding
InitField ==
    /\ ChainIdle
    /\ \E x \in 0 .. (BridgeOrder - 1) : \E from \in {"ark", "ff"} :
           fnIn = [x |-> x, from |-> from]
    /\ fnOut = None

RoundTrip(x, from) ==
    LET there == IF from = "ark" THEN ArkToPrimeField(x, BridgeOrder)
                 ELSE PrimeFieldToArk(x, BridgeOrder)
        back == IF ~there.ok THEN there
                ELSE IF from = "ark" THEN PrimeFieldToArk(there.val, BridgeOrder)
                ELSE ArkToPrimeField(there.val, BridgeOrder)
    IN [there |-> there, back |-> back]

CallRoundTrip ==
    /\ fnOut = None
    /\ fnOut' = Some(RoundTrip(fnIn.x, fnIn.from))
    /\ UNCHANGED <<chainVars, fnIn>>

SpecField == InitField /\ [][CallRoundTrip]_vars

\* the gates the conversions are called on: up to two multiplication terms and
\* up to two linear terms, in any order, repeated or not
GateWires == {0, 1}
MulTermSet == {<<c, l, r>> : c \in Field, l \in GateWires, r \in GateWires}
AddTermSet == {<<c, w>> : c \in Field, w \in GateWires}
UpToTwo(S) == {<<>>} \cup {<<a>> : a \in S} \cup {<<a, b>> : a \in S, b \in S}

InitGate ==
    /\ ChainIdle
    /\ \E m \in UpToTwo(MulTermSet) : \E a \in UpToTwo(AddTermSet) : \E q \in Field :
           fnIn = [mul_terms |-> m, add_terms |-> a, constant_term |-> q]
    /\ fnOut = None

\* AcirArithGate -> Opcode -> AcirArithGate
GateRoundTrip(gate) ==
    LET opcode == ToOpcode(gate)
    IN IF ~opcode.ok THEN opcode ELSE FromOpcode(opcode.val)

CallGateRoundTrip ==
    /\ fnOut = None
    /\ fnOut' = Some(GateRoundTrip(fnIn))
    /\ UNCHANGED <<chainVars, fnIn>>

SpecGate == InitGate /\ [][CallGateRoundTrip]_vars

-----------------------------------------------------------------------------
(* What a constraint and a gate say of an assignment *)

\* Term::LC is coefficient * w[var_id], Term::Const is its value
TermValue(t, w) ==
    IF t.kind = "Const" THEN t.value ELSE FMul(t.coefficient, w[t.var_id])

LCDefined(lc, w) ==
    \A i \in 1 .. Len(lc) : lc[i].kind = "LC" => lc[i].var_id \in DOMAIN w

\* the value of a linear combination; the empty one is zero
LCValue(lc, w) == SumSeq([i \in 1 .. Len(lc) |-> TermValue(lc[i], w)])

\* R1CSConstraint {a, b, c}: a * b = c
ConstraintHolds(cs, w) ==
    /\ LCDefined(cs.a, w) /\ LCDefined(cs.b, w) /\ LCDefined(cs.c, w)
    /\ FMul(LCValue(cs.a, w), LCValue(cs.b, w)) = LCValue(cs.c, w)

\* the constraint a multiplication term emits has one term on its c side, the
\* closing constraint of a gate has none
IsBilinear(cs) == Len(cs.c) = 1
IsClosing(cs) == Len(cs.c) = 0

\* the sum a gate asserts to be zero
GateValue(gate, w) ==
    FAdd(FAdd(SumSeq([i \in 1 .. Len(gate.mul_terms) |->
                  FMul(gate.mul_terms[i][1],
                       FMul(w[gate.mul_terms[i][2]], w[gate.mul_terms[i][3]]))]),
              SumSeq([i \in 1 .. Len(gate.add_terms) |->
                  FMul(gate.add_terms[i][1], w[gate.add_terms[i][2]])])),
         gate.constant_term)

AllGateIds(gates) == UNION {GateIds(gates[g]) : g \in 1 .. Len(gates)}

GatesHold(gates, w) ==
    /\ AllGateIds(gates) \subseteq DOMAIN w
    /\ \A g \in 1 .. Len(gates) : GateValue(gates[g], w) = FZero

\* the key set is 0 .. n-1 for its size n
Dense(S) == S = 0 .. (Cardinality(S) - 1)

\* every emitted constraint is met by the final assignment of the step
StepSatisfied(step) ==
    \A i \in 1 .. Len(step.program.r1cs_constraints) :
        LET cs == step.program.r1cs_constraints[i]
        IN /\ ConstraintHolds(cs, step.witness)
           /\ IsClosing(cs) => LCValue(cs.a, step.witness) = FZero

-----------------------------------------------------------------------------
(* C1: the four sets of the IO profile *)

PairwiseDisjoint(io) ==
    /\ io.public_inputs \cap io.private_inputs = {}
    /\ io.public_inputs \cap io.public_outputs = {}
    /\ io.public_inputs \cap io.private_outputs = {}
    /\ io.private_inputs \cap io.public_outputs = {}
    /\ io.private_inputs \cap io.private_outputs = {}
    /\ io.public_outputs \cap io.private_outputs = {}

\* C1: for every circuit and every private-output set that is a subset of the
\* return values, the four sets extract_io returns are pairwise disjoint
C1_IOSetsPairwiseDisjoint ==
    (fnOut # None /\ fnIn.private_outputs \subseteq fnIn.acvm_circuit.return_values)
        => (fnOut[1].ok /\ PairwiseDisjoint(fnOut[1].val))

-----------------------------------------------------------------------------
(* C2: the constraints of a step and its final assignment *)

\* C2 as stated: whenever make_step returned a Step for a witness holding every
\* identifier the gates name, the final assignment meets every bilinear
\* constraint and makes every closing linear combination zero
C2_StepSatisfiedOnAnyCompleteWitness ==
    (madeStep # None /\ AllGateIds(structure.gates) \subseteq DOMAIN madeStep[1].solved)
        => StepSatisfied(madeStep[1].step)

\* C2, amended: the same, for a witness that satisfies every gate and whose key
\* set is exactly 0 .. n-1
C2_StepSatisfiedOnSolvedDenseWitness ==
    (/\ madeStep # None
     /\ GatesHold(structure.gates, madeStep[1].solved)
     /\ Dense(DOMAIN madeStep[1].solved))
        => StepSatisfied(madeStep[1].step)

\* a step of a solved dense witness with a multiplication of two non-zero values
C2_Witness ==
    /\ madeStep # None
    /\ last.kind = "ok"
    /\ GatesHold(structure.gates, madeStep[1].solved)
    /\ Dense(DOMAIN madeStep[1].solved)
    /\ \E i \in 1 .. Len(madeStep[1].step.program.r1cs_constraints) :
          LET cs == madeStep[1].step.program.r1cs_constraints[i]
          IN IsBilinear(cs) /\ LCValue(cs.c, madeStep[1].step.witness) # FZero

-----------------------------------------------------------------------------
(* C3: the compiled program and the witnesses of the chain *)

\* C3: the program compile() returned is satisfied by the step witness of every
\* successful execute
C3_CompiledProgramSatisfied ==
    (program.kind = "ok" /\ last.kind = "ok")
        => \A i \in 1 .. Len(program.program[1].r1cs_constraints) :
               ConstraintHolds(program.program[1].r1cs_constraints[i], last.witness[1])

-----------------------------------------------------------------------------
(* C4, C5: what is threaded from one successful execute to the next *)

\* C4: a successful execute that follows a successful one runs on the public
\* input remapped from the public output of that one
C4_NextInputIsRemappedOutput ==
    [][(nOk' = nOk + 1 /\ lastOk # None)
         => last'.used_public_input =
              Some(make_next_input_witness(lastOk[1].public_output,
                                           structure.program.io))]_vars

\* two successes in a row, the second on a non-zero public input
C4_Witness ==
    /\ nOk = 2
    /\ last.kind = "ok"
    /\ \E k \in DOMAIN last.used_public_input[1] : last.used_public_input[1][k] # FZero

\* C5: a successful execute on iteration k returns a result numbered k and a
\* next state numbered k + 1; the j-th successful result (from 0) is numbered
\* start_step_num + j
C5_IterationNumbers ==
    [][nOk' = nOk + 1
         => /\ last'.result[1].iteration_number = circuit.iteration_number
            /\ last'.next[1].iteration_number = circuit.iteration_number + 1
            /\ circuit'.iteration_number = circuit.iteration_number + 1
            /\ last'.result[1].iteration_number = start_step_num + nOk]_vars

\* a second success of a chain started after step 0
C5_Witness ==
    /\ nOk = 2
    /\ last.kind = "ok"
    /\ start_step_num > 0
    /\ last.result[1].iteration_number = start_step_num + 1

-----------------------------------------------------------------------------
(* C6, C7, C8: failures *)

\* C6: when the solver ends with a status other than Solved, execute returns the
\* solve error carrying that status, and no result, witness or next state
C6_SolverFailureReturned ==
    acvmStatus \in StatusFailures
        => /\ last.kind = "err"
           /\ last.error = Some(<<"ACVMSolveError", DebugStatus(acvmStatus)>>)
           /\ last.result = None
           /\ last.witness = None
           /\ last.next = None
           /\ last.next_input = None

\* the solver failed on the second private input, after a success
C6_Witness ==
    /\ acvmStatus = <<"Failure", "UnsatisfiedConstrain">>
    /\ last.kind = "err"
    /\ nOk = 1

\* C7: once an execute has returned an error, no further private input reaches
\* the solver
C7_NoSolveAfterError ==
    [][failed => solverCalls' = solverCalls]_vars

\* C8: on an input is_valid_input rejects, execute returns the InvalidInput
\* error and the solver is not invoked
C8_InvalidInputReturned ==
    (last.kind # "none" /\ ~last.valid)
        => /\ last.kind = "err"
           /\ last.error = Some(<<"InvalidInput">>)
           /\ acvmStatus = StatusNotRun

-----------------------------------------------------------------------------
(* C9: is_valid_input *)

PublicKeysMatch == DOMAIN fnIn.public_input = fnIn.self.program.io.public_inputs
PrivateKeysMatch == DOMAIN fnIn.private_input = fnIn.self.program.io.private_inputs

\* C9: is_valid_input is true when the public keys or the private keys match
\* the declared set, also when only one of them does, and false only when both
\* differ
C9_ValidIffEitherMatches ==
    fnOut # None
        => /\ (PublicKeysMatch /\ PrivateKeysMatch) => fnOut[1] = TRUE
           /\ (PublicKeysMatch /\ ~PrivateKeysMatch) => fnOut[1] = TRUE
           /\ (~PublicKeysMatch /\ PrivateKeysMatch) => fnOut[1] = TRUE
           /\ (~PublicKeysMatch /\ ~PrivateKeysMatch) => fnOut[1] = FALSE

\* accepted with matching public keys and a private input of other keys
C9_Witness ==
    /\ fnOut = Some(TRUE)
    /\ PublicKeysMatch
    /\ ~PrivateKeysMatch
    /\ fnIn.self.program.io.private_inputs # {}

-----------------------------------------------------------------------------
(* C10: make_trivial_witness *)

ReferencedIds ==
    fnIn.program.io.public_inputs \cup fnIn.program.io.private_inputs
    \cup fnIn.program.io.public_outputs \cup fnIn.program.io.private_outputs
    \cup AllGateIds(fnIn.gates)

AllZeroOn(w, S) == DOMAIN w = S /\ \A k \in S : w[k] = FZero

\* C10: make_trivial_witness fails when the referenced identifiers are
\* not exactly 0 .. n-1, and otherwise returns the all-zero witness on them
C10_TrivialWitnessIffDense ==
    fnOut # None
        => IF Dense(ReferencedIds)
           THEN fnOut[1].ok /\ AllZeroOn(fnOut[1].val, ReferencedIds)
           ELSE ~fnOut[1].ok

\* C10 apart from the empty circuit: make_trivial_witness fails when the
\* referenced identifiers are empty or not exactly 0 .. n-1, and otherwise
\* returns the all-zero witness on them
C10_TrivialWitnessIffDenseNonEmpty ==
    fnOut # None
        => IF ReferencedIds # {} /\ Dense(ReferencedIds)
           THEN fnOut[1].ok /\ AllZeroOn(fnOut[1].val, ReferencedIds)
           ELSE ~fnOut[1].ok

\* a dense circuit whose largest identifier is named by a gate only
C10_Witness ==
    /\ fnOut # None
    /\ fnOut[1].ok
    /\ Cardinality(ReferencedIds) > 1
    /\ SetMax(ReferencedIds) \in AllGateIds(fnIn.gates)
    /\ SetMax(ReferencedIds) \notin fnIn.program.io.public_inputs
                                  \cup fnIn.program.io.public_outputs

-----------------------------------------------------------------------------
(* C11: the constraint list and the witness values *)

\* C11: two calls of make_step on the same structure, with solved witnesses of
\* the same key set, return the same constraint list and the same witness count
C11_ConstraintsIndependentOfValues ==
    [][(/\ madeStep # None
        /\ madeStep' # None
        /\ GatesHold(structure.gates, madeStep[1].solved)
        /\ GatesHold(structure.gates, madeStep'[1].solved)
        /\ DOMAIN madeStep[1].solved = DOMAIN madeStep'[1].solved)
         => /\ madeStep'[1].step.program.r1cs_constraints
                   = madeStep[1].step.program.r1cs_constraints
            /\ madeStep'[1].step.program.num_witness
                   = madeStep[1].step.program.num_witness]_vars

-----------------------------------------------------------------------------
(* C14: the numbering of the auxiliary wires *)

\* the multiplication terms of the gates, gates in list order, terms in term order
RECURSIVE FlatMulTerms(_)
FlatMulTerms(gates) ==
    IF Len(gates) = 0 THEN <<>>
    ELSE gates[1].mul_terms \o FlatMulTerms(Tail(gates))

\* how many of the first i - 1 constraints come from a multiplication term
BilinearBefore(cs, i) == Cardinality({k \in 1 .. (i - 1) : IsBilinear(cs[k])})

\* C14: on a solved witness with key set 0 .. n-1, the j-th multiplication term
\* (from 0) gets the auxiliary identifier n + j, no entry of the solved witness
\* changes, the witness count is the size of the returned assignment, n plus the
\* number of multiplication terms, its key set is 0 .. num_witness-1, and there
\* is one constraint per multiplication term and one more per gate
C14_AuxiliaryNumbering ==
    (madeStep # None /\ Dense(DOMAIN madeStep[1].solved))
        => LET solved == madeStep[1].solved
               step == madeStep[1].step
               cs == step.program.r1cs_constraints
               n == Cardinality(DOMAIN solved)
               muls == FlatMulTerms(structure.gates)
           IN /\ \A i \in 1 .. Len(cs) :
                    IsBilinear(cs[i])
                        => LET j == BilinearBefore(cs, i)
                           IN /\ j < Len(muls)
                              /\ cs[i].c[1].var_id = n + j
                              /\ cs[i].a[1].var_id = muls[j + 1][2]
                              /\ cs[i].b[1].var_id = muls[j + 1][3]
              /\ Cardinality({i \in 1 .. Len(cs) : IsBilinear(cs[i])}) = Len(muls)
              /\ \A k \in DOMAIN solved :
                    k \in DOMAIN step.witness /\ step.witness[k] = solved[k]
              /\ step.program.num_witness = Cardinality(DOMAIN step.witness)
              /\ step.program.num_witness = n + Len(muls)
              /\ DOMAIN step.witness = 0 .. (step.program.num_witness - 1)
              /\ Len(cs) = Len(muls) + Len(structure.gates)

\* a step of a successful execute on a gate with two multiplication terms
C14_Witness ==
    /\ madeStep # None
    /\ last.kind = "ok"
    /\ Dense(DOMAIN madeStep[1].solved)
    /\ Len(FlatMulTerms(structure.gates)) = 2
    /\ madeStep[1].step.witness = last.witness[1]
    /\ \E k \in DOMAIN madeStep[1].solved : madeStep[1].solved[k] # FZero

-----------------------------------------------------------------------------
(* C15: the public input a result records *)

\* C15: the public_input of the result of a successful execute is the public
\* input the circuit state held, whatever valid private input was supplied
C15_ResultPublicInputIsStates ==
    last.kind = "ok" => last.result[1].public_input = last.used_public_input[1]

-----------------------------------------------------------------------------
(* C12: the field bridge there and back *)

\* C12: every field element converted to the other encoding and back is itself
\* again, from either encoding, and zero converts to zero
C12_FieldRoundTrip ==
    fnOut # None
        => /\ fnOut[1].there.ok
           /\ fnOut[1].back = Ok(fnIn.x)
           /\ fnIn.x = 0 => fnOut[1].there = Ok(0)

\* p - 1, several hex and decimal digits long, from the ff encoding and back
C12_Witness ==
    /\ fnOut # None
    /\ fnIn.from = "ff"
    /\ fnIn.x = BridgeOrder - 1
    /\ fnIn.x > 99
    /\ fnOut[1].back.ok

-----------------------------------------------------------------------------
(* C13: a gate to an opcode and back *)

\* C13: a gate converted to an opcode and back is the same gate term for term:
\* as many mul_terms and add_terms, in the same order, with the same
\* coefficients and identifiers, and the same constant term
C13_GateRoundTrip ==
    fnOut # None
        => /\ fnOut[1].ok
           /\ Len(fnOut[1].val.mul_terms) = Len(fnIn.mul_terms)
           /\ \A i \in 1 .. Len(fnIn.mul_terms) :
                 fnOut[1].val.mul_terms[i] = fnIn.mul_terms[i]
           /\ Len(fnOut[1].val.add_terms) = Len(fnIn.add_terms)
           /\ \A i \in 1 .. Len(fnIn.add_terms) :
                 fnOut[1].val.add_terms[i] = fnIn.add_terms[i]
           /\ fnOut[1].val.constant_term = fnIn.constant_term

\* a gate with a repeated multiplication term and linear terms out of order
C13_Witness ==
    /\ fnOut # None
    /\ fnOut[1].ok
    /\ Len(fnIn.mul_terms) = 2
    /\ fnIn.mul_terms[1] = fnIn.mul_terms[2]
    /\ fnIn.mul_terms[1][1] = NegOne
    /\ Len(fnIn.add_terms) = 2
    /\ fnIn.add_terms[1][2] > fnIn.add_terms[2][2]
    /\ fnIn.constant_term # FZero

====
